---- MODULE Spec2Model ----
(***************************************************************************)
(* Model of src/pdf_filler_pikepdf.py: one run of main(), which calls      *)
(* fill_pdf_with_pikepdf on an opened document and a request mapping.      *)
(*                                                                         *)
(* Python strings are sequences of one-character strings, so that lower(), *)
(* strip(), lstrip('/') and the f-string joins are computed, not assumed.  *)
(* pikepdf objects are tagged records: Name, String, or Absent.            *)
(***************************************************************************)
EXTENDS Integers, Sequences, FiniteSets, TLC

(* ------------------------------------------------------------------ *)
(* Bounds of the model                                                  *)
(* ------------------------------------------------------------------ *)
MaxNodes == 3
MaxFields == 1
MaxReq == 2

(* ------------------------------------------------------------------ *)
(* Python strings                                                       *)
(* ------------------------------------------------------------------ *)
LowerChar(c) ==
  CASE c = "A" -> "a"
    [] c = "B" -> "b"
    [] c = "N" -> "n"
    [] c = "O" -> "o"
    [] c = "P" -> "p"
    [] c = "Y" -> "y"
    [] c = "Z" -> "z"
    [] OTHER -> c

\* str.lower()
Lower(s) == [k \in 1..Len(s) |-> LowerChar(s[k])]

\* str.lstrip(chars) for a one-character set
RECURSIVE LStrip(_, _)
LStrip(s, c) == IF s # <<>> /\ Head(s) = c THEN LStrip(Tail(s), c) ELSE s

RECURSIVE RStrip(_, _)
RStrip(s, c) ==
  IF s # <<>> /\ s[Len(s)] = c THEN RStrip(SubSeq(s, 1, Len(s) - 1), c) ELSE s

\* str.strip(): whitespace removed at both ends
Strip(s) == RStrip(LStrip(s, " "), " ")

\* values of the JSON request mapping: a string or null
PyNone == [k |-> "None", s |-> <<>>]
PyStr(s) == [k |-> "str", s |-> s]

\* str(value)
Str(v) == IF v.k = "None" THEN <<"N", "o", "n", "e">> ELSE v.s

(* ------------------------------------------------------------------ *)
(* pikepdf objects                                                      *)
(* ------------------------------------------------------------------ *)
Name(s) == [t |-> "Name", s |-> s]
String(s) == [t |-> "String", s |-> s]
Absent == [t |-> "Absent", s |-> <<>>]

NameOff == Name(<<"/", "O", "f", "f">>)
NameYes == Name(<<"/", "Y", "e", "s">>)
NameA == Name(<<"/", "A">>)
NameB == Name(<<"/", "B">>)

\* a rendering dictionary /AP: absent, the document's own (with the state
\* names of its /N sub-dictionary), or one drawn by the synthesizer
NoAP == [kind |-> "absent", states |-> {}, drawn |-> "none"]
OrigAP(states) == [kind |-> "orig", states |-> states, drawn |-> "none"]
SynthAP(drawn) == [kind |-> "synth", states |-> {}, drawn |-> drawn]

ensure_pdf_name(value) ==
  IF value = <<>> THEN NameOff
  ELSE Name(<<"/">> \o LStrip(Strip(value), "/"))

RadioFlag == 32768

(* ------------------------------------------------------------------ *)
(* Documents: an arena of nodes addressed by index                      *)
(* ------------------------------------------------------------------ *)
RectOk == <<0, 0, 10, 10>>
RectFlat == <<0, 0, 0, 10>>

Node(T, FT, Ff, Opt, V, AS, AP, Rect, I) ==
  [T |-> T, FT |-> FT, Ff |-> Ff, Opt |-> Opt, V |-> V, AS |-> AS,
   AP |-> AP, Rect |-> Rect, I |-> I]

\* non-terminal node named A
PCont == Node(<<"A">>, "", 0, <<>>, Absent, Absent, NoAP, <<>>, FALSE)
\* unnamed text terminal
PAnon == Node(<<>>, "Tx", 0, <<>>, Absent, Absent, NoAP, <<>>, FALSE)
\* text field B with an inline flag and a rendering
PText == Node(<<"B">>, "Tx", 0, <<>>, Absent, Absent, OrigAP({}), RectOk, TRUE)
\* choice field b
PChoice == Node(<<"b">>, "Ch", 0, <<>>, Absent, Absent, NoAP, <<>>, FALSE)
\* checkbox a merged with its widget, no export list
PCheck ==
  Node(<<"a">>, "Btn", 0, <<>>, NameOff, NameOff, OrigAP({NameYes, NameOff}),
       RectOk, FALSE)
\* checkbox a with a rendering but no rectangle anywhere
PCheckBare ==
  Node(<<"a">>, "Btn", 0, <<>>, Absent, Absent, OrigAP({NameYes, NameOff}),
       <<>>, FALSE)
\* checkbox a declaring the export list [On]
PCheckOpt ==
  Node(<<"a">>, "Btn", 0, << <<"O", "n">> >>, NameOff, NameOff, NoAP, RectOk,
       FALSE)
\* radio field P with exports A and B; its widgets are its kids
PRadio ==
  Node(<<"P">>, "Btn", RadioFlag, << <<"A">>, <<"B">> >>, NameA, Absent, NoAP,
       <<>>, FALSE)
\* the same radio field carrying a rendering of its own
PRadioAP ==
  Node(<<"P">>, "Btn", RadioFlag, << <<"A">>, <<"B">> >>, NameA, Absent,
       OrigAP({NameA, NameB, NameOff}), <<>>, FALSE)
\* widget of state A, currently selected
PWidA ==
  Node(<<>>, "", 0, <<>>, Absent, NameA, OrigAP({NameA, NameOff}), RectOk,
       FALSE)
\* widget of state B, currently off
PWidB ==
  Node(<<>>, "", 0, <<>>, Absent, NameOff, OrigAP({NameB, NameOff}), RectOk,
       FALSE)
\* widget of state B with a rectangle of width 0
PWidFlat ==
  Node(<<>>, "", 0, <<>>, Absent, NameOff, OrigAP({NameB, NameOff}), RectFlat,
       FALSE)

\* node kinds of the generic trees
TreeProfiles == {PCont, PAnon, PText, PChoice, PCheck}

\* /Kids of node n: the nodes whose parent is n, in arena order
KidsOf(par, n) ==
  SelectSeq([m \in 1..Len(par) |-> m], LAMBDA m : par[m] = n)

\* the arena of a document given each node's parent (0: listed in /Fields)
Arena(par, prof) ==
  [n \in 1..Len(par) |->
     [T |-> prof[n].T, FT |-> prof[n].FT, Ff |-> prof[n].Ff,
      Opt |-> prof[n].Opt, V |-> prof[n].V, AS |-> prof[n].AS,
      AP |-> prof[n].AP, Rect |-> prof[n].Rect, I |-> prof[n].I,
      Kids |-> KidsOf(par, n)]]

\* a root field with its subtree: parents relative to the subtree
Shape(par, prof) == [par |-> par, prof |-> prof]

FieldShapes ==
  { Shape(<<0>>, <<PText>>),
    Shape(<<0>>, <<PChoice>>),
    Shape(<<0>>, <<PCheck>>),
    Shape(<<0>>, <<PCheckBare>>),
    Shape(<<0>>, <<PCheckOpt>>),
    Shape(<<0, 1, 1>>, <<PRadio, PWidA, PWidB>>),
    Shape(<<0, 1, 1>>, <<PRadioAP, PWidFlat, PWidA>>),
    Shape(<<0, 1>>, <<PCont, PText>>) }

\* parents of a subtree placed after off nodes
Shift(par, off) ==
  [m \in 1..Len(par) |-> IF par[m] = 0 THEN 0 ELSE par[m] + off]

RECURSIVE FormPar(_)
FormPar(shapes) ==
  IF shapes = <<>> THEN <<>>
  ELSE LET front == FormPar(SubSeq(shapes, 1, Len(shapes) - 1))
       IN front \o Shift(shapes[Len(shapes)].par, Len(front))

RECURSIVE FormProf(_)
FormProf(shapes) ==
  IF shapes = <<>> THEN <<>>
  ELSE FormProf(SubSeq(shapes, 1, Len(shapes) - 1)) \o shapes[Len(shapes)].prof

SeqsUpTo(S, n) == UNION {[1..k -> S] : k \in 0..n}


(* ------------------------------------------------------------------ *)
(* State                                                                *)
(* ------------------------------------------------------------------ *)
VARIABLES
  pc,              \* position of the run: start, loop, returned, exit
  acro,            \* /AcroForm of the document root: absent, present, detached
  needAppearances, \* /NeedAppearances of the form dictionary
  nodes,           \* the arena of field and widget dictionaries
  Fields,          \* /Fields: the root nodes, in order
  fields,          \* the request mapping, in its order
  form_fields,     \* the index: qualified name -> node, in insertion order
  idx,             \* position of the loop in the request mapping
  filled_count,
  skipped_count,
  cur,             \* the request processed by the last iteration
  synth_calls,     \* calls of create_checkbox/radio_appearance so far
  saves,           \* calls of pdf.save so far
  result,          \* the dictionary returned by fill_pdf_with_pikepdf
  exit_status      \* status of the process, -1 while it runs

vars ==
  <<pc, acro, needAppearances, nodes, Fields, fields, form_fields, idx,
    filled_count, skipped_count, cur, synth_calls, saves, result, exit_status>>

NoResult == [none |-> TRUE]
NoCur ==
  [name |-> <<>>, value |-> PyNone, ref |-> 0, branch |-> "none",
   state |-> Absent, rect |-> <<>>]

Req(name, value) == [name |-> name, value |-> value]

\* request mappings: a dict has each key once
Mappings(names, values, n) ==
  {q \in SeqsUpTo({Req(nm, v) : nm \in names, v \in values}, n) :
     \A i, j \in 1..Len(q) : i # j => q[i].name # q[j].name}

FormNames == {<<"a">>, <<"A">>, <<"P">>, <<"B">>, <<"Z">>}
FormValues ==
  {PyStr(<<"Y", "e", "s">>), PyStr(<<"n", "o">>), PyStr(<<"b">>), PyStr(<<>>),
   PyNone}

TreeNames == {<<"a", ".", "b">>, <<"A", ".", "b">>, <<"a">>, <<"Z">>}
TreeValues == {PyStr(<<"Y", "e", "s">>), PyStr(<<>>)}

InitRun ==
  /\ pc = "start"
  /\ needAppearances = FALSE
  /\ form_fields = <<>>
  /\ idx = 1
  /\ filled_count = 0
  /\ skipped_count = 0
  /\ cur = NoCur
  /\ synth_calls = 0
  /\ saves = 0
  /\ result = NoResult
  /\ exit_status = -1

\* a document without /AcroForm
InitNoForm ==
  /\ acro = "absent"
  /\ nodes = <<>>
  /\ Fields = <<>>

\* forms made of up to MaxFields root fields
Init ==
  /\ InitRun
  /\ fields \in Mappings(FormNames, FormValues, MaxReq)
  /\ \/ InitNoForm
     \/ \E shapes \in SeqsUpTo(FieldShapes, MaxFields) :
          /\ acro = "present"
          /\ nodes = Arena(FormPar(shapes), FormProf(shapes))
          /\ Fields = KidsOf(FormPar(shapes), 0)

\* any tree of up to MaxNodes nodes
InitTree ==
  /\ InitRun
  /\ fields \in Mappings(TreeNames, TreeValues, 1)
  /\ \/ InitNoForm
     \/ \E n \in 0..MaxNodes :
          \E par \in [1..n -> 0..MaxNodes], prof \in [1..n -> TreeProfiles] :
            /\ \A m \in 1..n : par[m] < m
            /\ acro = "present"
            /\ nodes = Arena(par, prof)
            /\ Fields = KidsOf(par, 0)

(* ------------------------------------------------------------------ *)
(* The index                                                            *)
(* ------------------------------------------------------------------ *)
HasKey(ff, key) == \E k \in 1..Len(ff) : ff[k].name = key

\* form_fields[key] = ref: a dict keeps the position of a key it already has
DictPut(ff, key, ref) ==
  IF HasKey(ff, key)
  THEN [k \in 1..Len(ff) |->
          IF ff[k].name = key THEN [name |-> key, ref |-> ref] ELSE ff[k]]
  ELSE Append(ff, [name |-> key, ref |-> ref])

\* form_fields.get(key), 0 for None
DictGet(ff, key) ==
  IF HasKey(ff, key)
  THEN ff[CHOOSE k \in 1..Len(ff) : ff[k].name = key].ref
  ELSE 0

\* what an f-string prints for a partial name that may be None
FmtName(field_name) ==
  IF field_name = <<>> THEN <<"N", "o", "n", "e">> ELSE field_name

RECURSIVE collect_fields(_, _, _, _)
RECURSIVE CollectKids(_, _, _, _, _)

collect_fields(ns, ff, n, prefix) ==
  LET field == ns[n]
      field_name == field.T
      full_name ==
        IF prefix # <<>> THEN prefix \o <<".">> \o field_name ELSE field_name
      ff1 ==
        IF field.FT # "" /\ field_name # <<>>
        THEN DictPut(ff, full_name, n)
        ELSE ff
      new_prefix ==
        IF prefix # <<>>
        THEN prefix \o <<".">> \o FmtName(field_name)
        ELSE field_name
  IN IF new_prefix # <<>>
     THEN CollectKids(ns, ff1, field.Kids, 1, new_prefix)
     ELSE ff1

CollectKids(ns, ff, kids, k, prefix) ==
  IF k > Len(kids) THEN ff
  ELSE CollectKids(ns, collect_fields(ns, ff, kids[k], prefix), kids, k + 1,
                   prefix)

\* the loop over /Fields
RECURSIVE CollectRoots(_, _, _, _)
CollectRoots(ns, ff, roots, k) ==
  IF k > Len(roots) THEN ff
  ELSE CollectRoots(ns, collect_fields(ns, ff, roots[k], <<>>), roots, k + 1)

(* ------------------------------------------------------------------ *)
(* Name resolution                                                      *)
(* ------------------------------------------------------------------ *)
CIMatches(ff, name) == {k \in 1..Len(ff) : Lower(ff[k].name) = Lower(name)}

Min(S) == CHOOSE x \in S : \A y \in S : x <= y

\* the case-insensitive scan taken before the exact lookup
ResolveCIOnly(ff, name) ==
  IF CIMatches(ff, name) # {} THEN ff[Min(CIMatches(ff, name))].ref ELSE 0

\* field_ref of a request, 0 when nothing matches
Resolve(ff, name) ==
  IF DictGet(ff, name) # 0 THEN DictGet(ff, name)
  ELSE IF CIMatches(ff, name) # {} THEN ff[Min(CIMatches(ff, name))].ref
  ELSE 0


(* ------------------------------------------------------------------ *)
(* Rectangles and the synthesizer                                       *)
(* ------------------------------------------------------------------ *)
\* Method 1: the /Rect of the field's kids
RECURSIVE KidsRect(_, _, _, _)
KidsRect(ns, kids, k, rect_array) ==
  IF k > Len(kids) THEN rect_array
  ELSE LET kid_rect == ns[kids[k]].Rect
       IN IF kid_rect = <<>> THEN KidsRect(ns, kids, k + 1, rect_array)
          ELSE IF Len(kid_rect) >= 4 THEN kid_rect
          ELSE KidsRect(ns, kids, k + 1, kid_rect)

\* Method 2: the /Rect of a page annotation whose /T equals the field's /T.
\* The page lists every dictionary of the arena that has a /Rect, in order.
RECURSIVE PageRect(_, _, _, _)
PageRect(ns, field_name_str, k, rect_array) ==
  IF k > Len(ns) THEN rect_array
  ELSE LET annot == ns[k]
       IN IF annot.T # <<>> /\ annot.T = field_name_str /\ annot.Rect # <<>>
          THEN IF Len(annot.Rect) >= 4 THEN annot.Rect
               ELSE PageRect(ns, field_name_str, k + 1, annot.Rect)
          ELSE PageRect(ns, field_name_str, k + 1, rect_array)

FindRect(ns, n) ==
  LET r1 == KidsRect(ns, ns[n].Kids, 1, <<>>)
  IN IF r1 # <<>> THEN r1
     ELSE IF ns[n].T # <<>> THEN PageRect(ns, ns[n].T, 1, <<>>)
     ELSE <<>>

\* both return NoAP for None
create_checkbox_appearance(rect_array, state_name) ==
  IF rect_array = <<>> \/ Len(rect_array) < 4 THEN NoAP
  ELSE LET width == rect_array[3] - rect_array[1]
           height == rect_array[4] - rect_array[2]
       IN IF width <= 0 \/ height <= 0 THEN NoAP
          ELSE IF state_name = NameOff THEN SynthAP("box")
          ELSE SynthAP("box+check")

create_radio_appearance(rect_array, state_name) ==
  IF rect_array = <<>> \/ Len(rect_array) < 4 THEN NoAP
  ELSE LET width == rect_array[3] - rect_array[1]
           height == rect_array[4] - rect_array[2]
       IN IF width <= 0 \/ height <= 0 THEN NoAP
          ELSE IF state_name = NameOff THEN SynthAP("circle")
          ELSE SynthAP("circle+dot")

(* ------------------------------------------------------------------ *)
(* Button states                                                        *)
(* ------------------------------------------------------------------ *)
is_checkbox(field) == (field.Ff \div RadioFlag) % 2 = 0

Truthy ==
  {<<"o", "n">>, <<"t", "r", "u", "e">>, <<"1">>, <<"y", "e", "s">>}

\* the default on-state cut to its first letter
OnValueFirstLetter(opt) == IF opt # <<>> THEN opt[1] ELSE <<"Y">>

\* the on-state a checkbox declares: the first entry of /Opt, else 'Yes'
OnValue(opt) == IF opt # <<>> THEN opt[1] ELSE <<"Y", "e", "s">>

\* only null is ignored
IsEmptyOnlyNone(value) == value = PyNone

\* the request is ignored
IsEmpty(value) == value = PyNone \/ value = PyStr(<<>>)

\* state_name of a button field for a request value
ButtonState(field, value) ==
  LET value_str == Lower(Str(value))
  IN IF is_checkbox(field)
     THEN IF value_str \in Truthy
          THEN ensure_pdf_name(OnValue(field.Opt))
          ELSE ensure_pdf_name(<<"O", "f", "f">>)
     ELSE ensure_pdf_name(value_str)

(* ------------------------------------------------------------------ *)
(* Operations                                                           *)
(* ------------------------------------------------------------------ *)
\* main ignoring the result
ExitStatusAlwaysZero(res) == 0

\* sys.exit(1) when the result has no success
ExitStatus(res) == IF ~res.success THEN 1 ELSE 0

\* fill_pdf_with_pikepdf on a document without /AcroForm
OpenNoAcroForm ==
  /\ pc = "start"
  /\ acro = "absent"
  /\ saves' = saves + 1
  /\ result' = [success |-> FALSE, error |-> "No AcroForm found"]
  /\ pc' = "returned"
  /\ UNCHANGED <<acro, needAppearances, nodes, Fields, fields, form_fields,
                 idx, filled_count, skipped_count, cur, synth_calls,
                 exit_status>>

\* the index is built once
CollectFields ==
  /\ pc = "start"
  /\ acro # "absent"
  /\ form_fields' = CollectRoots(nodes, <<>>, Fields, 1)
  /\ pc' = "loop"
  /\ UNCHANGED <<acro, needAppearances, nodes, Fields, fields, idx,
                 filled_count, skipped_count, cur, synth_calls, saves, result,
                 exit_status>>

Pending == pc = "loop" /\ idx <= Len(fields)

\* if value is None or value == '': continue
SkipEmpty ==
  /\ Pending
  /\ IsEmpty(fields[idx].value)
  /\ cur' = [name |-> fields[idx].name, value |-> fields[idx].value,
             ref |-> 0, branch |-> "empty", state |-> Absent, rect |-> <<>>]
  /\ idx' = idx + 1
  /\ UNCHANGED <<pc, acro, needAppearances, nodes, Fields, fields,
                 form_fields, filled_count, skipped_count, synth_calls, saves,
                 result, exit_status>>

\* no field_ref, or a field_ref without /FT
SkipUnresolved ==
  /\ Pending
  /\ ~IsEmpty(fields[idx].value)
  /\ LET field_ref == Resolve(form_fields, fields[idx].name)
     IN /\ IF field_ref = 0 THEN TRUE ELSE nodes[field_ref].FT = ""
        /\ cur' = [name |-> fields[idx].name, value |-> fields[idx].value,
                   ref |-> field_ref, branch |-> "unresolved",
                   state |-> Absent, rect |-> <<>>]
  /\ skipped_count' = skipped_count + 1
  /\ idx' = idx + 1
  /\ UNCHANGED <<pc, acro, needAppearances, nodes, Fields, fields,
                 form_fields, filled_count, synth_calls, saves, result,
                 exit_status>>

FillText ==
  /\ Pending
  /\ ~IsEmpty(fields[idx].value)
  /\ LET field_ref == Resolve(form_fields, fields[idx].name)
     IN /\ field_ref # 0
        /\ nodes[field_ref].FT = "Tx"
        /\ nodes' = [nodes EXCEPT ![field_ref].V = String(Str(fields[idx].value)),
                                  ![field_ref].I = FALSE,
                                  ![field_ref].AP = NoAP]
        /\ cur' = [name |-> fields[idx].name, value |-> fields[idx].value,
                   ref |-> field_ref, branch |-> "text", state |-> Absent,
                   rect |-> <<>>]
  /\ filled_count' = filled_count + 1
  /\ idx' = idx + 1
  /\ UNCHANGED <<pc, acro, needAppearances, Fields, fields, form_fields,
                 skipped_count, synth_calls, saves, result, exit_status>>

FillButton ==
  /\ Pending
  /\ ~IsEmpty(fields[idx].value)
  /\ LET field_ref == Resolve(form_fields, fields[idx].name)
     IN /\ field_ref # 0
        /\ nodes[field_ref].FT = "Btn"
        /\ LET field == nodes[field_ref]
               state_name == ButtonState(field, fields[idx].value)
               rect_array == FindRect(nodes, field_ref)
               has_rect == rect_array # <<>> /\ Len(rect_array) >= 4
               appearance ==
                 IF is_checkbox(field)
                 THEN create_checkbox_appearance(rect_array, state_name)
                 ELSE create_radio_appearance(rect_array, state_name)
               new_ap ==
                 IF has_rect
                 THEN IF appearance # NoAP THEN appearance ELSE field.AP
                 ELSE NoAP
           IN /\ nodes' = [nodes EXCEPT ![field_ref].V = state_name,
                                        ![field_ref].AS = state_name,
                                        ![field_ref].AP = new_ap]
              /\ synth_calls' = IF has_rect THEN synth_calls + 1
                                ELSE synth_calls
              /\ cur' = [name |-> fields[idx].name,
                         value |-> fields[idx].value, ref |-> field_ref,
                         branch |-> "button", state |-> state_name,
                         rect |-> rect_array]
  /\ filled_count' = filled_count + 1
  /\ idx' = idx + 1
  /\ UNCHANGED <<pc, acro, needAppearances, Fields, fields, form_fields,
                 skipped_count, saves, result, exit_status>>

\* other field types
FillOther ==
  /\ Pending
  /\ ~IsEmpty(fields[idx].value)
  /\ LET field_ref == Resolve(form_fields, fields[idx].name)
     IN /\ field_ref # 0
        /\ nodes[field_ref].FT \notin {"", "Tx", "Btn"}
        /\ nodes' = [nodes EXCEPT ![field_ref].V = String(Str(fields[idx].value))]
        /\ cur' = [name |-> fields[idx].name, value |-> fields[idx].value,
                   ref |-> field_ref, branch |-> "other", state |-> Absent,
                   rect |-> <<>>]
  /\ filled_count' = filled_count + 1
  /\ idx' = idx + 1
  /\ UNCHANGED <<pc, acro, needAppearances, Fields, fields, form_fields,
                 skipped_count, synth_calls, saves, result, exit_status>>

\* the loop left before the mapping is exhausted
FinishEarly ==
  /\ pc = "loop"
  /\ \E regenerate_appearances, flatten \in BOOLEAN :
       /\ needAppearances' = (regenerate_appearances \/ ~flatten)
       /\ acro' = IF flatten THEN "detached" ELSE acro
  /\ saves' = saves + 1
  /\ result' = [success |-> TRUE, filled_count |-> filled_count,
                skipped_count |-> skipped_count,
                total_fields |-> Len(form_fields), output_size |-> "st_size"]
  /\ pc' = "returned"
  /\ UNCHANGED <<nodes, Fields, fields, form_fields, idx, filled_count,
                 skipped_count, cur, synth_calls, exit_status>>

\* after the loop: flags, flatten, the single save, the report
Finish ==
  /\ pc = "loop"
  /\ idx > Len(fields)
  /\ \E regenerate_appearances, flatten \in BOOLEAN :
       /\ needAppearances' = (regenerate_appearances \/ ~flatten)
       /\ acro' = IF flatten THEN "detached" ELSE acro
  /\ saves' = saves + 1
  /\ result' = [success |-> TRUE, filled_count |-> filled_count,
                skipped_count |-> skipped_count,
                total_fields |-> Len(form_fields), output_size |-> "st_size"]
  /\ pc' = "returned"
  /\ UNCHANGED <<nodes, Fields, fields, form_fields, idx, filled_count,
                 skipped_count, cur, synth_calls, exit_status>>

\* main prints the result and exits
MainExit ==
  /\ pc = "returned"
  /\ exit_status' = ExitStatus(result)
  /\ pc' = "exit"
  /\ UNCHANGED <<acro, needAppearances, nodes, Fields, fields, form_fields,
                 idx, filled_count, skipped_count, cur, synth_calls, saves,
                 result>>

Next ==
  \/ OpenNoAcroForm
  \/ CollectFields
  \/ SkipEmpty
  \/ SkipUnresolved
  \/ FillText
  \/ FillButton
  \/ FillOther
  \/ Finish
  \/ MainExit

Spec == Init /\ [][Next]_vars

SpecTree == InitTree /\ [][Next]_vars


(* ------------------------------------------------------------------ *)
(* Properties                                                           *)
(* ------------------------------------------------------------------ *)
Terminals == {n \in DOMAIN nodes : nodes[n].FT # ""}

Indexed == pc # "start" /\ acro # "absent"

Returned == pc \in {"returned", "exit"}

\* an iteration of the fill loop has just processed fields[idx]
LoopStep == pc = "loop" /\ idx <= Len(fields) /\ idx' = idx + 1

NonEmptyValue(v) == v # PyNone /\ v # PyStr(<<>>)

SameLetters(s, t) == Lower(s) = Lower(t)

\* the name is a key of the index, exactly or up to letter case
Known(name) ==
  \E k \in 1..Len(form_fields) : SameLetters(form_fields[k].name, name)

IsRadio(n) == nodes[n].FT = "Btn" /\ (nodes[n].Ff \div 32768) % 2 = 1

IsCheckbox(n) == nodes[n].FT = "Btn" /\ (nodes[n].Ff \div 32768) % 2 = 0

KidSet(n) == {nodes[n].Kids[k] : k \in 1..Len(nodes[n].Kids)}

\* C1: the index holds one entry per node with a field-type tag, and the
\* report's total_fields is that number.
C1_OneEntryPerTerminal ==
  /\ Indexed => Len(form_fields) = Cardinality(Terminals)
  /\ (Returned /\ acro # "absent") =>
       result.total_fields = Cardinality(Terminals)

\* C2: a request with a non-empty value whose name matches no indexed field
\* leaves filled_count as it was, and the report has success true and lists
\* the name in skipped_fields.
C2_UnknownNameReported ==
  /\ [][(LoopStep /\ NonEmptyValue(fields[idx].value)
           /\ ~Known(fields[idx].name))
          => filled_count' = filled_count]_vars
  /\ [](\A k \in 1..Len(fields) :
          (Returned /\ acro # "absent" /\ NonEmptyValue(fields[k].value)
             /\ ~Known(fields[k].name))
          => /\ result.success
             /\ "skipped_fields" \in DOMAIN result
             /\ \E j \in 1..Len(result.skipped_fields) :
                  result.skipped_fields[j] = fields[k].name)

\* C3: a request whose value is '' or null changes no counter, no field
\* attribute and no report, whether or not its name resolves.
C3_EmptyValueNoOp ==
  [][(LoopStep /\ fields[idx].value \in {PyNone, PyStr(<<>>)})
       => /\ filled_count' = filled_count
          /\ skipped_count' = skipped_count
          /\ nodes' = nodes
          /\ result' = result
          /\ synth_calls' = synth_calls
          /\ pc' = "loop"]_vars

\* an empty string was requested for an indexed text field that has a
\* rendering and an inline flag, and the loop has passed it
C3_Witness ==
  /\ pc = "loop"
  /\ cur.value = PyStr(<<>>)
  /\ \E k \in 1..Len(form_fields) :
       /\ form_fields[k].name = cur.name
       /\ nodes[form_fields[k].ref].FT = "Tx"
       /\ nodes[form_fields[k].ref].I
       /\ nodes[form_fields[k].ref].AP # NoAP
  /\ filled_count = 0
  /\ skipped_count = 0

IsTruthyValue(v) ==
  v.k = "str" /\ Lower(v.s) \in
    {<<"o", "n">>, <<"t", "r", "u", "e">>, <<"1">>, <<"y", "e", "s">>}

\* C4: the last request filled a checkbox: a truthy value with no export
\* list leaves /V = /AS = /Yes; a non-empty falsy value leaves /V = /AS =
\* /Off, also when an earlier request had turned the checkbox on.
C4_CheckboxRoundTrip ==
  (cur.ref # 0 /\ IsCheckbox(cur.ref) /\ NonEmptyValue(cur.value)) =>
    /\ cur.branch = "button"
    /\ (IsTruthyValue(cur.value) /\ nodes[cur.ref].Opt = <<>>) =>
         (nodes[cur.ref].V = NameYes /\ nodes[cur.ref].AS = NameYes)
    /\ ~IsTruthyValue(cur.value) =>
         (nodes[cur.ref].V = NameOff /\ nodes[cur.ref].AS = NameOff)

\* the first request turned a checkbox without export list on (found by
\* its exact name), the second turned the same checkbox off
C4_Witness ==
  /\ idx = 3
  /\ cur.ref # 0
  /\ IsCheckbox(cur.ref)
  /\ nodes[cur.ref].Opt = <<>>
  /\ IsTruthyValue(fields[1].value)
  /\ form_fields # <<>>
  /\ \E k \in 1..Len(form_fields) :
       form_fields[k].name = fields[1].name /\ form_fields[k].ref = cur.ref
  /\ cur.value = PyStr(<<"n", "o">>)
  /\ nodes[cur.ref].V = NameOff
  /\ nodes[cur.ref].AS = NameOff

\* C5: the last request filled a radio field with widgets, with a value
\* that names one of its exports: exactly one widget has that export as
\* its active state and every other widget is Off.
C5_RadioExclusive ==
  (cur.ref # 0 /\ IsRadio(cur.ref) /\ NonEmptyValue(cur.value)
     /\ KidSet(cur.ref) # {}) =>
    \A e \in 1..Len(nodes[cur.ref].Opt) :
      SameLetters(nodes[cur.ref].Opt[e], Str(cur.value)) =>
        LET V == Name(<<"/">> \o nodes[cur.ref].Opt[e])
            on == {w \in KidSet(cur.ref) : nodes[w].AS = V}
        IN /\ Cardinality(on) = 1
           /\ \A w \in KidSet(cur.ref) \ on : nodes[w].AS = NameOff

\* the field itself when it carries a rectangle, and its kids
WidgetsOf(n) == {w \in KidSet(n) \cup {n} : nodes[w].Rect # <<>>}

\* the widget's own rendering dictionary has an entry for the state
HasRendering(w, state) ==
  /\ nodes[w].AP.kind = "orig"
  /\ \E st \in nodes[w].AP.states : SameLetters(st.s, state.s)

\* C6: a button fill for which a widget of the field already has a rendering
\* of the target state calls no synthesizer and leaves the rendering
\* dictionaries of the field and of its widgets as they were.
C6_ReuseBeforeSynthesize ==
  [][(LoopStep /\ cur'.branch = "button"
        /\ \E w \in WidgetsOf(cur'.ref) : HasRendering(w, cur'.state))
       => /\ synth_calls' = synth_calls
          /\ \A w \in KidSet(cur'.ref) \cup {cur'.ref} :
               nodes'[w].AP = nodes[w].AP]_vars

\* C7: the node a non-empty request is applied to is the one under the
\* exact key if there is one, else the one under the first key in index
\* order equal up to letter case, else none; so a request that differs only
\* by case from the single key spelled like it reaches that key's node.
C7_ResolutionOrder ==
  (pc = "loop" /\ cur.branch \notin {"none", "empty"}) =>
    LET ff == form_fields
        exact == {k \in 1..Len(ff) : ff[k].name = cur.name}
        ci == {k \in 1..Len(ff) : SameLetters(ff[k].name, cur.name)}
    IN /\ \A k \in exact : cur.ref = ff[k].ref
       /\ exact = {} =>
            \A k \in ci : (\A j \in ci : k <= j) => cur.ref = ff[k].ref
       /\ ci = {} => cur.ref = 0
       /\ \A k \in ci : ci = {k} => cur.ref = ff[k].ref

\* "a.b" was requested, "A.B" is the only key spelled like it, and the
\* text field under "A.B" received the value
C7_Witness ==
  /\ pc = "loop"
  /\ cur.name = <<"a", ".", "b">>
  /\ \E k \in 1..Len(form_fields) :
       /\ form_fields[k].name = <<"A", ".", "B">>
       /\ \A j \in 1..Len(form_fields) :
            SameLetters(form_fields[j].name, cur.name) => j = k
       /\ cur.ref = form_fields[k].ref
       /\ nodes[cur.ref].V = String(<<"Y", "e", "s">>)

\* C8: without /AcroForm the run fails as a whole: the report has success
\* false and the error "No AcroForm found" and no filled_count, no request
\* is processed, and the process exits with a non-zero status.
C8_NoAcroFormFails ==
  acro = "absent" =>
    /\ pc # "loop"
    /\ idx = 1
    /\ cur = NoCur
    /\ filled_count = 0
    /\ skipped_count = 0
    /\ form_fields = <<>>
    /\ Returned =>
         /\ result.success = FALSE
         /\ "error" \in DOMAIN result
         /\ result.error = "No AcroForm found"
         /\ "filled_count" \notin DOMAIN result
    /\ pc = "exit" => exit_status # 0

\* a run on a document without /AcroForm, asked to fill two fields, has
\* exited
C8_Witness ==
  /\ acro = "absent"
  /\ pc = "exit"
  /\ Len(fields) = 2
  /\ NonEmptyValue(fields[1].value)
  /\ exit_status = 1

\* the value names none of the states declared for the radio field
Unmatched(n, v) ==
  /\ \A e \in 1..Len(nodes[n].Opt) : ~SameLetters(nodes[n].Opt[e], Str(v))
  /\ \A w \in KidSet(n) : \A st \in nodes[w].AP.states :
       ~SameLetters(st.s, <<"/">> \o Str(v))

\* C9: a radio fill with a non-empty value that matches no declared state
\* sets /V to /Off and counts the request as skipped, not as filled.
C9_UnmatchedRadioSkipped ==
  [][(LoopStep /\ cur'.ref # 0 /\ IsRadio(cur'.ref)
        /\ NonEmptyValue(cur'.value) /\ Unmatched(cur'.ref, cur'.value))
       => /\ nodes'[cur'.ref].V = NameOff
          /\ skipped_count' = skipped_count + 1
          /\ filled_count' = filled_count]_vars

\* C10: filling the radio field with exports A and B with "b" sets /V and
\* the active state of the widget of state B to /B, and counts as filled.
C10_DeclaredSpelling ==
  (cur.ref # 0 /\ IsRadio(cur.ref) /\ cur.value = PyStr(<<"b">>)
     /\ nodes[cur.ref].Opt = << <<"A">>, <<"B">> >>) =>
    /\ cur.branch = "button"
    /\ nodes[cur.ref].V = NameB
    /\ \A w \in KidSet(cur.ref) :
         NameB \in nodes[w].AP.states => nodes[w].AS = NameB


\* the rectangle has no positive width or height
Degenerate(rect) ==
  Len(rect) >= 4 /\ (rect[3] - rect[1] <= 0 \/ rect[4] - rect[2] <= 0)

\* C11: the last request filled a button field whose rectangle is
\* degenerate: the fill went through, /V and /AS are set, the field's
\* rendering dictionary is cleared, and a form that is kept is marked as
\* needing re-rendering.
C11_DegenerateDefersToViewer ==
  (cur.ref # 0 /\ nodes[cur.ref].FT = "Btn" /\ Degenerate(cur.rect)) =>
    /\ cur.branch = "button"
    /\ nodes[cur.ref].V # Absent
    /\ nodes[cur.ref].AS = nodes[cur.ref].V
    /\ nodes[cur.ref].AP = NoAP
    /\ (Returned /\ acro = "present") => needAppearances

NonEmptyUpTo(n) == {k \in 1..n : NonEmptyValue(fields[k].value)}

\* C12: each loop step takes the next request of the mapping and either
\* changes no counter (empty value) or adds one to exactly one of
\* filled_count and skipped_count; the counters always add up to the
\* non-empty requests passed so far; the report is made and the document
\* saved once, after the last request.
C12_Accounting ==
  /\ [][LoopStep =>
          /\ cur'.name = fields[idx].name
          /\ cur'.value = fields[idx].value
          /\ pc' = "loop"
          /\ saves' = saves
          /\ IF NonEmptyValue(fields[idx].value)
             THEN \/ /\ filled_count' = filled_count + 1
                     /\ skipped_count' = skipped_count
                  \/ /\ filled_count' = filled_count
                     /\ skipped_count' = skipped_count + 1
             ELSE /\ filled_count' = filled_count
                  /\ skipped_count' = skipped_count]_vars
  /\ [][idx' = idx \/ idx' = idx + 1]_vars
  /\ [](Indexed =>
          /\ idx <= Len(fields) + 1
          /\ filled_count + skipped_count = Cardinality(NonEmptyUpTo(idx - 1))
          /\ pc = "loop" => saves = 0
          /\ Returned =>
               /\ idx = Len(fields) + 1
               /\ saves = 1
               /\ result.success
               /\ result.filled_count + result.skipped_count
                    = Cardinality(NonEmptyUpTo(Len(fields)))
               /\ result.filled_count = filled_count
               /\ result.skipped_count = skipped_count)

\* a run over an ignored empty value and then a button fill has returned:
\* one request counted, one save
C12_Witness ==
  /\ pc = "returned"
  /\ acro # "absent"
  /\ Len(fields) = 2
  /\ ~NonEmptyValue(fields[1].value)
  /\ cur.name = fields[2].name
  /\ cur.branch = "button"
  /\ result.filled_count = 1
  /\ result.skipped_count = 0
  /\ saves = 1

====
